---- MODULE Spec2Model ----
(***************************************************************************)
(* The bytecode engine of mx (src/mx/src/bytecode.rs): values, execution   *)
(* state, Instruction::eval and the Program driver, as a state machine.    *)
(*                                                                         *)
(* A Value is a tagged pair <<tag, payload>>.  Option<T> is <<>> for None  *)
(* and <<x>> for Some(x).  A HashMap is a function whose DOMAIN is the set *)
(* of keys bound.  user_table is the Table of taulunen                    *)
(* (src/taulunen/src/table.rs), which the engine does not use.             *)
(***************************************************************************)
EXTENDS Integers, Sequences, FiniteSets, TLC

VARIABLES instructions, pc, globals, stack_frames, ret, result, prev, entry,
          user_table

vars == <<instructions, pc, globals, stack_frames, ret, result, prev, entry, user_table>>

(***************************************************************************)
(* Bounds of the model.                                                    *)
(***************************************************************************)
MaxProgLen == 3
MaxFrames == 2
MaxParams == 2
MaxPairs == 2
MaxList == 3
MaxItems == 2

(***************************************************************************)
(* Value model: value.rs, primitive.rs, table.rs.                          *)
(***************************************************************************)
Nil == <<"Nil", 0>>
Bool(b) == <<"Bool", b>>
Number(n) == <<"Number", n>>
String(s) == <<"String", s>>
Table(m) == <<"Table", m>>
FunctionPointer(a) == <<"FunctionPointer", a>>

is_nil(v) == v = Nil
is_number(v) == v[1] = "Number"
is_string(v) == v[1] = "String"
is_table(v) == v[1] = "Table"
IsPrimitive(v) == v[1] \in {"Nil", "Bool", "Number", "String"}

None == <<>>
Some(x) == <<x>>

(***************************************************************************)
(* Number (number.rs), a wrapper of f64.  Number(n) is the finite float    *)
(* n.0, and +0.0 is Number(0); the other floats have a third component:    *)
(* negative zero, the NaNs by their payload bits, the infinities and       *)
(* f64::MAX and f64::MIN by their sign.                                    *)
(***************************************************************************)
NegZero == <<"Number", 0, "-0.0">>
NaN(bits) == <<"Number", bits, "NaN">>
Infinity(sign) == <<"Number", sign, "inf">>
f64_MAX == <<"Number", 1, "MAX">>
f64_MIN == <<"Number", -1, "MAX">>

\* f64::is_nan
is_nan(x) == Len(x) = 3 /\ x[3] = "NaN"

\* The place of a float that is no NaN on the extended real line: the
\* infinities and f64::MIN, f64::MAX lie outside the modelled integers.
Tier(x) ==
    IF Len(x) = 2 \/ x[3] = "-0.0" THEN 0
    ELSE IF x[3] = "MAX" THEN x[2]
    ELSE 2 * x[2]

\* f64 <
f64_lt(a, b) ==
    /\ ~is_nan(a)
    /\ ~is_nan(b)
    /\ \/ Tier(a) < Tier(b)
       \/ Tier(a) = 0 /\ Tier(b) = 0 /\ a[2] < b[2]

\* f64::partial_cmp: None when either is NaN.
f64_partial_cmp(a, b) ==
    IF is_nan(a) \/ is_nan(b) THEN None
    ELSE IF f64_lt(a, b) THEN Some("Less")
    ELSE IF f64_lt(b, a) THEN Some("Greater")
    ELSE Some("Equal")

\* f64 ==
f64_eq(a, b) == f64_partial_cmp(a, b) = Some("Equal")

\* f64::to_bits: the bit pattern, one per float.
to_bits(x) == <<"bits", x>>

\* PartialEq for Number
number_eq(a, b) == IF is_nan(a) /\ is_nan(b) THEN TRUE ELSE f64_eq(a, b)

\* Hash for Number: what it writes to the Hasher.
number_hash(x) == IF is_nan(x) THEN to_bits(f64_MIN) ELSE to_bits(x)

\* PartialOrd for Number
partial_cmp(a, b) ==
    IF is_nan(a) /\ is_nan(b) THEN Some("Equal") ELSE f64_partial_cmp(a, b)

\* Ord for Number
cmp(a, b) ==
    CASE is_nan(a) /\ is_nan(b) -> "Equal"
      [] is_nan(a) /\ ~is_nan(b) -> "Less"
      [] ~is_nan(a) /\ is_nan(b) -> "Greater"
      [] OTHER -> f64_partial_cmp(a, b)[1]

\* The derived PartialEq and Hash of Primitive: by variant, then payload.
primitive_eq(a, b) ==
    /\ a[1] = b[1]
    /\ IF is_number(a) THEN number_eq(a, b) ELSE a = b

primitive_hash(a) == IF is_number(a) THEN <<"Number", number_hash(a)>> ELSE a

\* HashMap::new() / Table::new()
EmptyMap == [k \in {} |-> Nil]

\* HashMap::insert on Vars, whose keys are Strings.
insert(m, name, value) == [k \in DOMAIN m \cup {name} |-> IF k = name THEN value ELSE m[k]]

\* The keys of m a HashMap lookup of key finds: those of the same hash that
\* are equal to it.  The map holds at most one.
Found(m, key) ==
    {k \in DOMAIN m : primitive_hash(k) = primitive_hash(key) /\ primitive_eq(k, key)}

Slot(m, key) == CHOOSE k \in Found(m, key) : TRUE

\* set removing the entry when the value is Nil.
set_nil_removes(m, key, value) ==
    IF is_nil(value) THEN [k \in DOMAIN m \ Found(m, key) |-> m[k]]
    ELSE IF Found(m, key) = {}
    THEN [k \in DOMAIN m \cup {key} |-> IF k = key THEN value ELSE m[k]]
    ELSE [m EXCEPT ![Slot(m, key)] = value]

\* Table::set, HashMap::insert: inserts or overwrites unconditionally; an
\* overwritten entry keeps the key it was inserted with.
set(m, key, value) ==
    IF Found(m, key) = {} THEN [k \in DOMAIN m \cup {key} |-> IF k = key THEN value ELSE m[k]]
    ELSE [m EXCEPT ![Slot(m, key)] = value]

\* Table::get: the bound value or None.
get(m, key) == IF Found(m, key) # {} THEN Some(m[Slot(m, key)]) ELSE None

\* Table::get_mut: entry(key).or_insert(nil), the table with the slot vivified.
get_mut(m, key) == IF Found(m, key) # {} THEN m ELSE set(m, key, Nil)

\* IntoIterator for Table: the bindings whose value is not Nil.
into_iter(m) == {k \in DOMAIN m : ~is_nil(m[k])}

\* bool comparing every Number with 0.0, NaN included.
bool_nan_is_false(v) ==
    CASE v[1] = "Nil" -> FALSE
      [] v[1] = "Bool" -> v[2]
      [] v[1] = "Number" -> f64_partial_cmp(v, Number(0)) \in {Some("Less"), Some("Greater")}
      [] v[1] = "String" -> v[2] # ""
      [] v[1] = "Table" -> into_iter(v[2]) # {}
      [] OTHER -> TRUE

\* builtins::bool: the truthiness of a value.
bool(v) ==
    CASE v[1] = "Nil" -> FALSE
      [] v[1] = "Bool" -> v[2]
      [] v[1] = "Number" -> IF is_nan(v) THEN TRUE ELSE ~f64_eq(v, Number(0))
      [] v[1] = "String" -> v[2] # ""
      [] v[1] = "Table" -> into_iter(v[2]) # {}
      [] OTHER -> TRUE

(***************************************************************************)
(* RuntimeError and the outcome of Instruction::eval,                      *)
(* Result<Option<Value>, RuntimeError>.                                    *)
(***************************************************************************)
RuntimeError == {"EmptyStack", "NoStackFrames", "NotATable", "InvalidVariable",
                 "InvalidTableKey", "InvalidProgramCounter", "InvalidReturnAddress",
                 "InvalidCallable", "FunctionArgumentNotProvided"}

Ok(x) == <<"Ok", x>>
Err(e) == <<"Err", e>>
Panic == <<"Panic", "todo">>
Running == <<>>

(***************************************************************************)
(* State and StackFrame.  A step of a fallible helper yields               *)
(* [ok, s, v, e]: the state it leaves, and its value or its error.         *)
(***************************************************************************)
StackFrame(locals, return_address, stack) ==
    [locals |-> locals, return_address |-> return_address, stack |-> stack]

State(p, g, f) == [pc |-> p, globals |-> g, stack_frames |-> f]

Good(s, v) == [ok |-> TRUE, s |-> s, v |-> v, e |-> ""]
Bad(s, e) == [ok |-> FALSE, s |-> s, v |-> Nil, e |-> e]

Out(s, r) == [s |-> s, ret |-> r]

\* incr_pc skipping an instruction.
incr_pc_twice(s) == [s EXCEPT !.pc = @ + 2]

incr_pc(s) == [s EXCEPT !.pc = @ + 1]

NoFrames(s) == s.stack_frames = <<>>
Top(s) == s.stack_frames[Len(s.stack_frames)]
WithTop(s, frame) == [s EXCEPT !.stack_frames[Len(s.stack_frames)] = frame]

push_stack(s, value) ==
    IF NoFrames(s) THEN Bad(s, "NoStackFrames")
    ELSE Good(WithTop(s, [Top(s) EXCEPT !.stack = Append(@, value)]), Nil)

pop_stack(s) ==
    IF NoFrames(s) THEN Bad(s, "NoStackFrames")
    ELSE IF Top(s).stack = <<>> THEN Bad(s, "EmptyStack")
    ELSE Good(WithTop(s, [Top(s) EXCEPT !.stack = SubSeq(@, 1, Len(@) - 1)]),
              Top(s).stack[Len(Top(s).stack)])

peek_stack(s) ==
    IF NoFrames(s) THEN Bad(s, "NoStackFrames")
    ELSE IF Top(s).stack = <<>> THEN Bad(s, "EmptyStack")
    ELSE Good(s, Top(s).stack[Len(Top(s).stack)])

\* set_var assigning to the global of that name when there is one and the
\* innermost frame has no local of that name.
set_var_assigns_global(s, name, value) ==
    IF NoFrames(s) THEN Bad(s, "NoStackFrames")
    ELSE IF name \in DOMAIN s.globals /\ name \notin DOMAIN Top(s).locals
    THEN Good([s EXCEPT !.globals = insert(@, name, value)], Nil)
    ELSE Good(WithTop(s, [Top(s) EXCEPT !.locals = insert(@, name, value)]), Nil)

set_var(s, name, value) ==
    IF NoFrames(s) THEN Bad(s, "NoStackFrames")
    ELSE Good(WithTop(s, [Top(s) EXCEPT !.locals = insert(@, name, value)]), Nil)

\* The indexes of the frames whose locals bind name; the innermost is the greatest.
FramesBinding(s, name) ==
    {i \in 1..Len(s.stack_frames) : name \in DOMAIN s.stack_frames[i].locals}

Max(S) == CHOOSE x \in S : \A y \in S : y <= x

\* get_var looking only at the innermost frame before the globals.
get_var_current_frame_only(s, name) ==
    IF ~NoFrames(s) /\ name \in DOMAIN Top(s).locals THEN Good(s, Top(s).locals[name])
    ELSE IF name \in DOMAIN s.globals THEN Good(s, s.globals[name])
    ELSE Bad(s, "InvalidVariable")

\* get_var preferring the globals to the locals.
get_var_globals_first(s, name) ==
    IF name \in DOMAIN s.globals THEN Good(s, s.globals[name])
    ELSE IF FramesBinding(s, name) # {}
    THEN Good(s, s.stack_frames[Max(FramesBinding(s, name))].locals[name])
    ELSE Bad(s, "InvalidVariable")

get_var(s, name) ==
    IF FramesBinding(s, name) # {}
    THEN Good(s, s.stack_frames[Max(FramesBinding(s, name))].locals[name])
    ELSE IF name \in DOMAIN s.globals THEN Good(s, s.globals[name])
    ELSE Bad(s, "InvalidVariable")

\* Finish an instruction that pushes one value and continues.
PushAndContinue(s, value) ==
    LET p == push_stack(s, value)
    IN  IF p.ok THEN Out(p.s, Ok(None)) ELSE Out(p.s, Err(p.e))

(***************************************************************************)
(* Instruction::eval, one operator per arm.                                *)
(***************************************************************************)
\* EvalNop leaving the program counter where it was.
EvalNopKeepsPc(s) == Out(s, Ok(None))

EvalNop(s) == Out(incr_pc(s), Ok(None))

EvalCopy(s) ==
    LET s0 == incr_pc(s)
        p == peek_stack(s0)
    IN  IF ~p.ok THEN Out(p.s, Err(p.e))
        ELSE PushAndContinue(p.s, p.v)

EvalSwap(s) ==
    LET s0 == incr_pc(s)
        tos == pop_stack(s0)
        tos1 == pop_stack(tos.s)
    IN  IF ~tos.ok THEN Out(tos.s, Err(tos.e))
        ELSE IF ~tos1.ok THEN Out(tos1.s, Err(tos1.e))
        ELSE PushAndContinue(push_stack(tos1.s, tos.v).s, tos1.v)

EvalPop(s) ==
    LET s0 == incr_pc(s)
        p == pop_stack(s0)
    IN  IF ~p.ok THEN Out(p.s, Err(p.e)) ELSE Out(p.s, Ok(None))

\* EvalStoreName writing the globals instead of the current frame's locals.
EvalStoreNameGlobal(s) ==
    LET s0 == incr_pc(s)
        value == pop_stack(s0)
        name == pop_stack(value.s)
    IN  IF ~value.ok THEN Out(value.s, Err(value.e))
        ELSE IF ~name.ok THEN Out(name.s, Err(name.e))
        ELSE IF ~is_string(name.v) THEN Out(name.s, Err("InvalidVariable"))
        ELSE Out([name.s EXCEPT !.globals = insert(@, name.v[2], value.v)], Ok(None))

EvalStoreName(s) ==
    LET s0 == incr_pc(s)
        value == pop_stack(s0)
        name == pop_stack(value.s)
    IN  IF ~value.ok THEN Out(value.s, Err(value.e))
        ELSE IF ~name.ok THEN Out(name.s, Err(name.e))
        ELSE IF ~is_string(name.v) THEN Out(name.s, Err("InvalidVariable"))
        ELSE LET b == set_var(name.s, name.v[2], value.v)
             IN  IF b.ok THEN Out(b.s, Ok(None)) ELSE Out(b.s, Err(b.e))

EvalStorePrimitive(s, c) ==
    LET s0 == incr_pc(s)
        name == pop_stack(s0)
    IN  IF ~name.ok THEN Out(name.s, Err(name.e))
        ELSE IF ~is_string(name.v) THEN Out(name.s, Err("InvalidVariable"))
        ELSE LET b == set_var(name.s, name.v[2], c)
             IN  IF b.ok THEN Out(b.s, Ok(None)) ELSE Out(b.s, Err(b.e))

EvalPushName(s) ==
    LET s0 == incr_pc(s)
        name == pop_stack(s0)
    IN  IF ~name.ok THEN Out(name.s, Err(name.e))
        ELSE IF ~is_string(name.v) THEN Out(name.s, Err("InvalidVariable"))
        ELSE LET value == get_var(name.s, name.v[2])
             IN  IF ~value.ok THEN Out(value.s, Err(value.e))
                 ELSE PushAndContinue(value.s, value.v)

EvalPushPrimitive(s, c) == PushAndContinue(incr_pc(s), c)

\* EvalTableGet failing on a key the table does not bind.
EvalTableGetAbsentIsError(s) ==
    LET s0 == incr_pc(s)
        key == pop_stack(s0)
        tos == peek_stack(key.s)
    IN  IF ~key.ok THEN Out(key.s, Err(key.e))
        ELSE IF ~IsPrimitive(key.v) THEN Out(key.s, Err("InvalidTableKey"))
        ELSE IF ~tos.ok THEN Out(tos.s, Err(tos.e))
        ELSE IF is_table(tos.v)
             THEN IF get(tos.v[2], key.v) = None THEN Out(tos.s, Err("InvalidTableKey"))
                  ELSE PushAndContinue(tos.s, get(tos.v[2], key.v)[1])
             ELSE Out(tos.s, Err("InvalidVariable"))

\* EvalTableGet popping the table instead of peeking at it.
EvalTableGetPopsTable(s) ==
    LET s0 == incr_pc(s)
        key == pop_stack(s0)
        tos == pop_stack(key.s)
    IN  IF ~key.ok THEN Out(key.s, Err(key.e))
        ELSE IF ~IsPrimitive(key.v) THEN Out(key.s, Err("InvalidTableKey"))
        ELSE IF ~tos.ok THEN Out(tos.s, Err(tos.e))
        ELSE IF is_table(tos.v)
             THEN LET value == IF get(tos.v[2], key.v) = None THEN Nil
                               ELSE get(tos.v[2], key.v)[1]
                  IN  PushAndContinue(tos.s, value)
             ELSE Out(tos.s, Err("InvalidVariable"))

EvalTableGet(s) ==
    LET s0 == incr_pc(s)
        key == pop_stack(s0)
        tos == peek_stack(key.s)
    IN  IF ~key.ok THEN Out(key.s, Err(key.e))
        ELSE IF ~IsPrimitive(key.v) THEN Out(key.s, Err("InvalidTableKey"))
        ELSE IF ~tos.ok THEN Out(tos.s, Err(tos.e))
        ELSE IF is_table(tos.v)
             THEN LET value == IF get(tos.v[2], key.v) = None THEN Nil
                               ELSE get(tos.v[2], key.v)[1]
                  IN  PushAndContinue(tos.s, value)
             ELSE Out(tos.s, Err("InvalidVariable"))

\* ListBuildLoop numbering the values in the order they are popped.
RECURSIVE ListBuildLoopPopOrder(_, _, _, _)
ListBuildLoopPopOrder(s, n, i, table) ==
    IF i = n THEN Good(s, Table(table))
    ELSE LET value == pop_stack(s)
         IN  IF ~value.ok THEN Bad(value.s, value.e)
             ELSE ListBuildLoopPopOrder(value.s, n, i + 1, set(table, Number(i), value.v))

\* The loop of TableListBuild(n): iteration i pops a value and sets key n-i-1.
RECURSIVE ListBuildLoop(_, _, _, _)
ListBuildLoop(s, n, i, table) ==
    IF i = n THEN Good(s, Table(table))
    ELSE LET value == pop_stack(s)
         IN  IF ~value.ok THEN Bad(value.s, value.e)
             ELSE ListBuildLoop(value.s, n, i + 1, set(table, Number(n - i - 1), value.v))

EvalTableListBuild(s, n) ==
    LET b == ListBuildLoop(incr_pc(s), n, 0, EmptyMap)
    IN  IF ~b.ok THEN Out(b.s, Err(b.e)) ELSE PushAndContinue(b.s, b.v)

\* The first loop of TableDictBuild(n): pops n (value, key) pairs; v is the
\* vector res, in the order popped.
RECURSIVE DictPopLoop(_, _, _)
DictPopLoop(s, n, res) ==
    IF n = 0 THEN Good(s, res)
    ELSE LET value == pop_stack(s)
             key == pop_stack(value.s)
         IN  IF ~value.ok THEN Bad(value.s, value.e)
             ELSE IF ~key.ok THEN Bad(key.s, key.e)
             ELSE IF ~IsPrimitive(key.v) THEN Bad(key.s, "InvalidTableKey")
             ELSE DictPopLoop(key.s, n - 1, Append(res, <<key.v, value.v>>))

\* DictSetLoop going over res in the order popped, without the reversal.
RECURSIVE DictSetLoopFirstWins(_, _)
DictSetLoopFirstWins(res, table) ==
    IF res = <<>> THEN table
    ELSE DictSetLoopFirstWins(SubSeq(res, 2, Len(res)), set(table, res[1][1], res[1][2]))

\* The second loop of TableDictBuild: table.set over res reversed.
RECURSIVE DictSetLoop(_, _)
DictSetLoop(res, table) ==
    IF res = <<>> THEN table
    ELSE DictSetLoop(SubSeq(res, 1, Len(res) - 1),
                     set(table, res[Len(res)][1], res[Len(res)][2]))

EvalTableDictBuild(s, n) ==
    LET p == DictPopLoop(incr_pc(s), n, <<>>)
    IN  IF ~p.ok THEN Out(p.s, Err(p.e))
        ELSE PushAndContinue(p.s, Table(DictSetLoop(p.v, EmptyMap)))

\* Merge keeping the binding of tos1 where both tables have one.
MergeLeftBiased(tos1, tos) ==
    [k \in DOMAIN tos1 \cup into_iter(tos) |-> IF k \in DOMAIN tos1 THEN tos1[k] ELSE tos[k]]

\* The loop of TableMerge over the bindings keys of tos still to come: each
\* is set in tos1.
RECURSIVE MergeLoop(_, _, _)
MergeLoop(tos1, tos, keys) ==
    IF keys = {} THEN tos1
    ELSE LET key == CHOOSE k \in keys : TRUE
         IN  MergeLoop(set(tos1, key, tos[key]), tos, keys \ {key})

\* Merge over every binding of tos, the Nil ones as well.
MergeAppliesNil(tos1, tos) == MergeLoop(tos1, tos, DOMAIN tos)

\* for (key, value) in tos: every non-Nil binding of tos is set in tos1.
Merge(tos1, tos) == MergeLoop(tos1, tos, into_iter(tos))

EvalTableMerge(s) ==
    LET s0 == incr_pc(s)
        tos == pop_stack(s0)
        tos1 == pop_stack(tos.s)
    IN  IF ~tos.ok THEN Out(tos.s, Err(tos.e))
        ELSE IF ~is_table(tos.v) THEN Out(tos.s, Err("NotATable"))
        ELSE IF ~tos1.ok THEN Out(tos1.s, Err(tos1.e))
        ELSE IF ~is_table(tos1.v) THEN Out(tos1.s, Err("NotATable"))
        ELSE PushAndContinue(tos1.s, Table(Merge(tos1.v[2], tos.v[2])))

\* The first loop of StoreFunctionArgs(_, n): pops n (positional, named)
\* pairs; v is the vector positional_named_pairs, in the order popped.
RECURSIVE ArgsPopLoop(_, _, _)
ArgsPopLoop(s, n, res) ==
    IF n = 0 THEN Good(s, res)
    ELSE LET positional == pop_stack(s)
             named == pop_stack(positional.s)
         IN  IF ~positional.ok THEN Bad(positional.s, positional.e)
             ELSE IF ~named.ok THEN Bad(named.s, named.e)
             ELSE ArgsPopLoop(named.s, n - 1, Append(res, <<positional.v, named.v>>))

\* ArgSlot trying the positional key before the named one.
ArgSlotPositionalFirst(tos, positional, named) ==
    IF ~is_string(named) THEN Err("InvalidVariable")
    ELSE IF is_number(positional) /\ ~is_nil(get_mut(tos, positional)[positional])
         THEN <<"Slot", positional>>
    ELSE IF ~is_nil(get_mut(tos, named)[named]) THEN <<"Slot", named>>
    ELSE IF ~is_number(positional) THEN Err("InvalidVariable")
    ELSE Err("FunctionArgumentNotProvided")

\* One parameter of the second loop: the slot of tos it resolves from,
\* <<"Slot", key>>, or the error it fails with, <<"Err", e>>.
ArgSlot(tos, positional, named) ==
    IF ~is_string(named) THEN Err("InvalidVariable")
    ELSE IF ~is_nil(get_mut(tos, named)[named]) THEN <<"Slot", named>>
    ELSE IF ~is_number(positional) THEN Err("InvalidVariable")
    ELSE IF is_nil(get_mut(get_mut(tos, named), positional)[positional])
         THEN Err("FunctionArgumentNotProvided")
    ELSE <<"Slot", positional>>

\* ArgsBindLoop without the clearing of the slot a parameter was read from.
RECURSIVE ArgsBindLoopKeepsSlot(_, _, _, _)
ArgsBindLoopKeepsSlot(s, tos, pairs, i) ==
    IF i > Len(pairs) THEN Good(s, tos)
    ELSE LET slot == ArgSlot(tos, pairs[i][1], pairs[i][2])
         IN  IF slot[1] = "Err" THEN Bad(s, slot[2])
             ELSE LET b == set_var(s, pairs[i][2][2], tos[slot[2]])
                  IN  IF ~b.ok THEN Bad(b.s, b.e)
                      ELSE ArgsBindLoopKeepsSlot(b.s, tos, pairs, i + 1)

\* The second loop of StoreFunctionArgs over pairs[i..]: binds each parameter
\* and clears the slot it was read from; v is the table tos it leaves.
RECURSIVE ArgsBindLoop(_, _, _, _)
ArgsBindLoop(s, tos, pairs, i) ==
    IF i > Len(pairs) THEN Good(s, tos)
    ELSE LET slot == ArgSlot(tos, pairs[i][1], pairs[i][2])
         IN  IF slot[1] = "Err" THEN Bad(s, slot[2])
             ELSE LET b == set_var(s, pairs[i][2][2], tos[slot[2]])
                  IN  IF ~b.ok THEN Bad(b.s, b.e)
                      ELSE ArgsBindLoop(b.s, set(get_mut(tos, pairs[i][2]), slot[2], Nil),
                                        pairs, i + 1)

\* ArgsBindSelf binding self whenever the table has it, requested or not.
ArgsBindSelfAlways(s, tos, get_self) ==
    IF is_nil(get_mut(tos, String("self"))[String("self")])
    THEN IF get_self THEN Out(s, Err("FunctionArgumentNotProvided")) ELSE Out(s, Ok(None))
    ELSE LET b == set_var(s, "self", tos[String("self")])
         IN  IF b.ok THEN Out(b.s, Ok(None)) ELSE Out(b.s, Err(b.e))

\* The tail of StoreFunctionArgs: the implicit self parameter.
ArgsBindSelf(s, tos, get_self) ==
    IF ~get_self THEN Out(s, Ok(None))
    ELSE IF is_nil(get_mut(tos, String("self"))[String("self")])
         THEN Out(s, Err("FunctionArgumentNotProvided"))
    ELSE LET b == set_var(s, "self", tos[String("self")])
         IN  IF b.ok THEN Out(b.s, Ok(None)) ELSE Out(b.s, Err(b.e))

EvalStoreFunctionArgs(s, get_self, n) ==
    LET p == ArgsPopLoop(incr_pc(s), n, <<>>)
        tos == pop_stack(p.s)
        b == ArgsBindLoop(tos.s, tos.v[2], p.v, 1)
    IN  IF ~p.ok THEN Out(p.s, Err(p.e))
        ELSE IF ~tos.ok THEN Out(tos.s, Err(tos.e))
        ELSE IF ~is_table(tos.v) THEN Out(tos.s, Err("InvalidVariable"))
        ELSE IF ~b.ok THEN Out(b.s, Err(b.e))
        ELSE ArgsBindSelf(b.s, b.v, get_self)

\* EvalReturn leaving the returning frame on the frame stack when it halts.
EvalReturnKeepsFrame(s) ==
    LET value == pop_stack(s)
        frame == Top(value.s)
        popped == [value.s EXCEPT !.stack_frames = SubSeq(@, 1, Len(@) - 1)]
    IN  IF ~value.ok THEN Out(value.s, Err(value.e))
        ELSE IF frame.return_address # None
             THEN PushAndContinue([popped EXCEPT !.pc = frame.return_address[1]], value.v)
        ELSE Out(value.s, Ok(Some(value.v)))

\* EvalReturn pushing the returned value back on the callee's stack.
EvalReturnKeepsCallee(s) ==
    LET value == pop_stack(s)
        frame == Top(value.s)
        popped == [value.s EXCEPT !.stack_frames = SubSeq(@, 1, Len(@) - 1)]
    IN  IF ~value.ok THEN Out(value.s, Err(value.e))
        ELSE IF frame.return_address # None
             THEN PushAndContinue([value.s EXCEPT !.pc = frame.return_address[1]], value.v)
        ELSE Out(popped, Ok(Some(value.v)))

EvalReturn(s) ==
    LET value == pop_stack(s)
        frame == Top(value.s)
        popped == [value.s EXCEPT !.stack_frames = SubSeq(@, 1, Len(@) - 1)]
    IN  IF ~value.ok THEN Out(value.s, Err(value.e))
        ELSE IF frame.return_address # None
             THEN PushAndContinue([popped EXCEPT !.pc = frame.return_address[1]], value.v)
        ELSE Out(popped, Ok(Some(value.v)))

\* The arms that are todo!(): UnaryOp, BinaryOp, the jumps, PushFunction, Call.
TodoOps == {"UnaryOp", "BinaryOp", "PopJumpIfTrue", "PopJumpIfFalse", "Jump",
            "PushFunction", "Call"}

(***************************************************************************)
(* The instruction sequences and the states the model runs.                *)
(***************************************************************************)
Names == {"a", "b", "self"}
Positions == {0, 1}

\* A HashMap binding every key of keys to value.
Const(keys, value) == [k \in keys |-> value]

\* The maps binding some of the names a, b, each to value.
VarsOf(value) == {Const(D, value) : D \in SUBSET {"a", "b"}}

\* The instructions a generated sequence is made of.
ProgInstrs ==
    {<<"Nop">>, <<"Pop">>, <<"StoreName">>, <<"PushName">>, <<"Return">>, <<"Call">>,
     <<"PushPrimitive", Number(1)>>, <<"PushPrimitive", String("a")>>, <<"Jump", 1>>}

\* The instructions evaluated on a prepared state.
StackInstrs ==
    {<<"Nop">>, <<"Copy">>, <<"Swap">>, <<"Pop">>, <<"StoreName">>, <<"PushName">>,
     <<"TableGet">>, <<"TableMerge">>, <<"Return">>, <<"Call">>,
     <<"UnaryOp", "Minus">>, <<"BinaryOp", "Add">>}
    \cup {<<"StorePrimitive", c>> : c \in {Nil, Number(1)}}
    \cup {<<"PushPrimitive", c>> : c \in {Nil, Bool(TRUE), Number(1), String("a")}}
    \cup {<<op, n>> : op \in {"TableListBuild", "TableDictBuild", "Jump",
                              "PopJumpIfTrue", "PopJumpIfFalse", "PushFunction"},
                      n \in 0..2}
    \cup {<<"StoreFunctionArgs", b, n>> : b \in BOOLEAN, n \in 0..1}

RECURSIVE SeqsUpTo(_, _)
SeqsUpTo(S, n) ==
    IF n = 0 THEN {<<>>}
    ELSE SeqsUpTo(S, n - 1) \cup {Append(q, x) : q \in SeqsUpTo(S, n - 1), x \in S}

Programs == SeqsUpTo(ProgInstrs, MaxProgLen)

StackValues ==
    {Nil, Number(0), Number(1), String("a"), String("b"), Table(EmptyMap),
     Table(Const({String("a")}, Number(1))), FunctionPointer(0)}

\* Program::run_with(globals): pc 0, one frame with no locals, no return
\* address and an empty stack.
\* InitRun building a State without the frame of the top level.
InitRunWithoutFrame ==
    \E program \in Programs, g \in VarsOf(Number(0)) :
        /\ instructions = program
        /\ pc = 0
        /\ globals = g
        /\ stack_frames = <<>>
        /\ result = Running
        /\ entry = [fn |-> "run_with", value |-> Nil, args |-> EmptyMap, globals |-> g]

InitRun ==
    \E program \in Programs, g \in VarsOf(Number(0)) :
        /\ instructions = program
        /\ pc = 0
        /\ globals = g
        /\ stack_frames = <<StackFrame(EmptyMap, None, <<>>)>>
        /\ result = Running
        /\ entry = [fn |-> "run_with", value |-> Nil, args |-> EmptyMap, globals |-> g]

\* InitCall starting every call at the first instruction.
InitCallFromZero ==
    \E program \in Programs, a \in {EmptyMap, Const({"a"}, Number(1))},
       value \in {FunctionPointer(n) : n \in 0..MaxProgLen + 1} \cup {Nil} :
        /\ instructions = program
        /\ pc = 0
        /\ globals = Const({"a"}, Number(0))
        /\ stack_frames = IF value[1] = "FunctionPointer"
                          THEN <<StackFrame(a, None, <<>>)>> ELSE <<>>
        /\ result = IF value[1] = "FunctionPointer" THEN Running ELSE Err("InvalidCallable")
        /\ entry = [fn |-> "call_with", value |-> value, args |-> a,
                    globals |-> Const({"a"}, Number(0))]

\* Program::call_with(value, args, globals): a FunctionPointer starts at its
\* address with the args as locals; anything else is InvalidCallable.
InitCall ==
    \E program \in Programs, a \in {EmptyMap, Const({"a"}, Number(1))},
       value \in {FunctionPointer(n) : n \in 0..MaxProgLen + 1} \cup {Nil} :
        /\ instructions = program
        /\ pc = IF value[1] = "FunctionPointer" THEN value[2] ELSE 0
        /\ globals = Const({"a"}, Number(0))
        /\ stack_frames = IF value[1] = "FunctionPointer"
                          THEN <<StackFrame(a, None, <<>>)>> ELSE <<>>
        /\ result = IF value[1] = "FunctionPointer" THEN Running ELSE Err("InvalidCallable")
        /\ entry = [fn |-> "call_with", value |-> value, args |-> a,
                    globals |-> Const({"a"}, Number(0))]

\* Operands of StoreFunctionArgs that are malformed: a name that is no
\* String, a positional key that is neither a Number nor Nil, no table.
BadArgStacks ==
    {<<Table(Const({Number(0)}, Number(1))), Number(0), Number(0)>>,
     <<Table(Const({String("b")}, Number(1))), String("a"), String("b")>>,
     <<Number(0), String("a"), Number(0)>>}

\* Program::run_with_state(state) on one instruction, as the unit tests
\* evaluate it: one frame, a stack of up to two values.
InitStack ==
    \E instr \in StackInstrs, stack \in SeqsUpTo(StackValues, 2) \cup BadArgStacks :
        /\ instructions = <<instr>>
        /\ pc = 0
        /\ globals = Const({"a"}, Number(0))
        /\ stack_frames = <<StackFrame(Const({"b"}, Number(1)), None, stack)>>
        /\ result = Running
        /\ entry = [fn |-> "run_with_state", value |-> Nil, args |-> EmptyMap,
                    globals |-> Const({"a"}, Number(0))]

\* The frames beneath the innermost one: frame i binds its names to
\* Number(i); the first has no return address, the others return to 1.
RECURSIVE OuterFrames(_)
OuterFrames(d) ==
    IF d = 0 THEN {<<>>}
    ELSE {Append(fs, StackFrame(l, IF d = 1 THEN None ELSE Some(1), st)) :
            fs \in OuterFrames(d - 1), l \in VarsOf(Number(d)),
            st \in {<<>>, <<Number(0)>>}}

FrameInstrs == {<<"PushName">>, <<"StoreName">>, <<"StorePrimitive", Nil>>, <<"Return">>}

TopStacks ==
    {<<>>, <<String("a")>>, <<String("b")>>, <<Number(0)>>,
     <<String("a"), Number(1)>>, <<Number(0), Number(1)>>}

\* Program::run_with_state(state) on one instruction with up to MaxFrames
\* live frames, the innermost with or without a return address.
InitFrames ==
    \E instr \in FrameInstrs, d \in 1..MaxFrames, g \in VarsOf(Number(0)) :
    \E outer \in OuterFrames(d - 1), l \in VarsOf(Number(d)), st \in TopStacks,
       ra \in {None} \cup {Some(r) : r \in 0..2} :
        /\ instructions = <<instr>>
        /\ pc = 0
        /\ globals = g
        /\ stack_frames = Append(outer, StackFrame(l, ra, st))
        /\ result = Running
        /\ entry = [fn |-> "run_with_state", value |-> Nil, args |-> EmptyMap, globals |-> g]

\* The keys of an arguments table, and the value a bound slot holds: one
\* that names the slot.
ArgKeys == {String(n) : n \in Names} \cup {Number(i) : i \in Positions}

ArgValue(key) ==
    IF is_number(key) THEN Number(10 + key[2])
    ELSE IF key = String("a") THEN Number(20)
    ELSE IF key = String("b") THEN Number(21)
    ELSE Number(22)

ArgTables ==
    {[k \in D |-> IF k \in N THEN Nil ELSE ArgValue(k)] :
        D \in SUBSET ArgKeys, N \in SUBSET ArgKeys}

\* A declared parameter is a pair <<named, positional>>: a String and a
\* Number or Nil.
ParamPairs ==
    {<<String(n), p>> : n \in Names, p \in {Nil} \cup {Number(i) : i \in Positions}}

\* The operands of StoreFunctionArgs as the caller pushes them: the table,
\* then named and positional of each parameter in declaration order.
RECURSIVE ArgsStack(_, _)
ArgsStack(table, params) ==
    IF params = <<>> THEN <<Table(table)>>
    ELSE ArgsStack(table, SubSeq(params, 1, Len(params) - 1))
         \o <<params[Len(params)][1], params[Len(params)][2]>>

\* Program::run_with_state(state) on one StoreFunctionArgs with well-formed
\* operands, in a frame that already binds a and self.
InitArgs ==
    \E get_self \in BOOLEAN, table \in ArgTables, params \in SeqsUpTo(ParamPairs, MaxParams) :
        /\ instructions = <<<<"StoreFunctionArgs", get_self, Len(params)>>>>
        /\ pc = 0
        /\ globals = EmptyMap
        /\ stack_frames = <<StackFrame(Const({"a", "self"}, Number(0)), None,
                                       ArgsStack(table, params))>>
        /\ result = Running
        /\ entry = [fn |-> "run_with_state", value |-> Nil, args |-> EmptyMap,
                    globals |-> EmptyMap]

\* The (key, value) pairs TableDictBuild is given, keys repeating.
DictPairs ==
    {<<k, v>> : k \in {String("a"), Number(0)}, v \in {Nil, Number(1), Number(2)}}

\* The operands of TableDictBuild as pushed: key and value of each pair.
RECURSIVE DictStack(_)
DictStack(pairs) ==
    IF pairs = <<>> THEN <<>>
    ELSE DictStack(SubSeq(pairs, 1, Len(pairs) - 1))
         \o <<pairs[Len(pairs)][1], pairs[Len(pairs)][2]>>

\* Program::run_with_state(state) on one TableDictBuild(n) over up to
\* MaxPairs pairs, n of them taken.
InitDict ==
    \E pairs \in SeqsUpTo(DictPairs, MaxPairs) :
    \E n \in 0..Len(pairs) :
        /\ instructions = <<<<"TableDictBuild", n>>>>
        /\ pc = 0
        /\ globals = EmptyMap
        /\ stack_frames = <<StackFrame(EmptyMap, None, DictStack(pairs))>>
        /\ result = Running
        /\ entry = [fn |-> "run_with_state", value |-> Nil, args |-> EmptyMap,
                    globals |-> EmptyMap]

\* The tables TableMerge is given: a and b each absent, Nil, 1 or 2.
MergeTables ==
    {[k \in D |-> f[k]] : D \in SUBSET {String("a"), String("b")},
                          f \in [{String("a"), String("b")} -> {Nil, Number(1), Number(2)}]}

\* Program::run_with_state(state) on one TableMerge over two tables, above
\* an entry that stays.
InitMerge ==
    \E tos1 \in MergeTables, tos \in MergeTables, below \in {<<>>, <<Number(0)>>} :
        /\ instructions = <<<<"TableMerge">>>>
        /\ pc = 0
        /\ globals = EmptyMap
        /\ stack_frames = <<StackFrame(EmptyMap, None, below \o <<Table(tos1), Table(tos)>>)>>
        /\ result = Running
        /\ entry = [fn |-> "run_with_state", value |-> Nil, args |-> EmptyMap,
                    globals |-> EmptyMap]

Init ==
    /\ ret = Ok(None)
    /\ prev = <<>>
    /\ user_table = <<>>
    /\ \/ InitRun
       \/ InitCall
       \/ InitStack
       \/ InitFrames
       \/ InitArgs
       \/ InitDict
       \/ InitMerge

(***************************************************************************)
(* Program::run_with_state: one action per iteration of its loop, by the   *)
(* instruction fetched.                                                    *)
(***************************************************************************)
Current == State(pc, globals, stack_frames)

Fetched(op) ==
    /\ result = Running
    /\ pc < Len(instructions)
    /\ instructions[pc + 1][1] = op

\* Step carrying on after an error of eval instead of returning it.
StepSwallowsError(out) ==
    /\ prev' = <<Current>>
    /\ pc' = out.s.pc
    /\ globals' = out.s.globals
    /\ stack_frames' = out.s.stack_frames
    /\ ret' = out.ret
    /\ result' = IF out.ret[1] = "Ok" /\ out.ret[2] # None THEN Ok(out.ret[2][1])
                 ELSE Running
    /\ UNCHANGED <<instructions, entry, user_table>>

\* instruction.eval(&mut state)?: an error or a final value ends the loop.
Step(out) ==
    /\ prev' = <<Current>>
    /\ pc' = out.s.pc
    /\ globals' = out.s.globals
    /\ stack_frames' = out.s.stack_frames
    /\ ret' = out.ret
    /\ result' = IF out.ret[1] = "Err" THEN out.ret
                 ELSE IF out.ret[2] # None THEN Ok(out.ret[2][1])
                 ELSE Running
    /\ UNCHANGED <<instructions, entry, user_table>>

Nop == Fetched("Nop") /\ Step(EvalNop(Current))
Copy == Fetched("Copy") /\ Step(EvalCopy(Current))
Swap == Fetched("Swap") /\ Step(EvalSwap(Current))
Pop == Fetched("Pop") /\ Step(EvalPop(Current))
StoreName == Fetched("StoreName") /\ Step(EvalStoreName(Current))
StorePrimitive ==
    Fetched("StorePrimitive") /\ Step(EvalStorePrimitive(Current, instructions[pc + 1][2]))
PushName == Fetched("PushName") /\ Step(EvalPushName(Current))
PushPrimitive ==
    Fetched("PushPrimitive") /\ Step(EvalPushPrimitive(Current, instructions[pc + 1][2]))
TableGet == Fetched("TableGet") /\ Step(EvalTableGet(Current))
TableListBuild ==
    Fetched("TableListBuild") /\ Step(EvalTableListBuild(Current, instructions[pc + 1][2]))
TableDictBuild ==
    Fetched("TableDictBuild") /\ Step(EvalTableDictBuild(Current, instructions[pc + 1][2]))
TableMerge == Fetched("TableMerge") /\ Step(EvalTableMerge(Current))
StoreFunctionArgs ==
    /\ Fetched("StoreFunctionArgs")
    /\ Step(EvalStoreFunctionArgs(Current, instructions[pc + 1][2], instructions[pc + 1][3]))
Return == Fetched("Return") /\ Step(EvalReturn(Current))

\* The arm `_ => todo!()`: the evaluation panics and the run is abandoned.
Todo ==
    /\ result = Running
    /\ pc < Len(instructions)
    /\ instructions[pc + 1][1] \in TodoOps
    /\ prev' = <<Current>>
    /\ result' = Panic
    /\ UNCHANGED <<instructions, pc, globals, stack_frames, ret, entry, user_table>>

\* EndOfProgram yielding the top of the operand stack when there is one.
EndOfProgramYieldsTop ==
    /\ result = Running
    /\ pc = Len(instructions)
    /\ prev' = <<Current>>
    /\ result' = IF stack_frames # <<>> /\ Top(Current).stack # <<>>
                 THEN Ok(Top(Current).stack[Len(Top(Current).stack)]) ELSE Ok(Nil)
    /\ UNCHANGED <<instructions, pc, globals, stack_frames, ret, entry, user_table>>

\* No instruction at pc and pc = len: the run ends with nil.
EndOfProgram ==
    /\ result = Running
    /\ pc = Len(instructions)
    /\ prev' = <<Current>>
    /\ result' = Ok(Nil)
    /\ UNCHANGED <<instructions, pc, globals, stack_frames, ret, entry, user_table>>

\* InvalidProgramCounter treating every pc past the end as the end.
InvalidProgramCounterAsEnd ==
    /\ result = Running
    /\ pc > Len(instructions)
    /\ prev' = <<Current>>
    /\ result' = Ok(Nil)
    /\ UNCHANGED <<instructions, pc, globals, stack_frames, ret, entry, user_table>>

\* No instruction at pc and pc # len.
InvalidProgramCounter ==
    /\ result = Running
    /\ pc > Len(instructions)
    /\ prev' = <<Current>>
    /\ result' = Err("InvalidProgramCounter")
    /\ UNCHANGED <<instructions, pc, globals, stack_frames, ret, entry, user_table>>

Next ==
    \/ Nop
    \/ Copy
    \/ Swap
    \/ Pop
    \/ StoreName
    \/ StorePrimitive
    \/ PushName
    \/ PushPrimitive
    \/ TableGet
    \/ TableListBuild
    \/ TableDictBuild
    \/ TableMerge
    \/ StoreFunctionArgs
    \/ Return
    \/ Todo
    \/ EndOfProgram
    \/ InvalidProgramCounter

Spec == Init /\ [][Next]_vars

(***************************************************************************)
(* Vocabulary of the properties.  prev holds the state the last iteration  *)
(* of the driver loop started from.                                        *)
(***************************************************************************)
Before == prev[1]

\* The last iteration evaluated an instruction of opcode op.
Evaluated(op) ==
    /\ prev # <<>>
    /\ Before.pc < Len(instructions)
    /\ instructions[Before.pc + 1][1] = op

Last(q) == q[Len(q)]
Front(q) == SubSeq(q, 1, Len(q) - 1)

HasReturn(program) == \E i \in 1..Len(program) : program[i] = <<"Return">>

\* C1: Return in a frame with no return address pops the top value v, removes
\* the frame and ends the run with v; eval yields a final value in no other
\* case, every Ok result is either such a v or the nil of the end of the
\* sequence, and [PushPrimitive(c), Return] run from an empty state yields c.
C1_ReturnHalts ==
    /\ ( /\ Evaluated("Return")
         /\ Top(Before).stack # <<>>
         /\ Top(Before).return_address = None )
       => /\ ret = Ok(Some(Last(Top(Before).stack)))
          /\ result = Ok(Last(Top(Before).stack))
          /\ stack_frames = Front(Before.stack_frames)
    /\ (ret[1] = "Ok" /\ ret[2] # None)
       => /\ Evaluated("Return")
          /\ Top(Before).return_address = None
          /\ result = Ok(ret[2][1])
    /\ (result # Running /\ result[1] = "Ok")
       => \/ ret = Ok(Some(result[2]))
          \/ Before.pc = Len(instructions) /\ result = Ok(Nil)
    /\ \A c \in {Number(1), String("a")} :
         ( /\ entry.fn = "run_with"
           /\ instructions = <<<<"PushPrimitive", c>>, <<"Return">>>>
           /\ result # Running )
         => result = Ok(c)

C1_Witness ==
    /\ entry.fn = "run_with"
    /\ instructions = <<<<"PushPrimitive", String("a")>>, <<"Return">>>>
    /\ Evaluated("Return")
    /\ result = Ok(String("a"))
    /\ stack_frames = <<>>

\* C2: Return in a frame with return address r above a caller frame pops the
\* top value v, removes the callee frame, sets pc to r and pushes v on the
\* caller's stack; the caller's locals, its earlier stack entries and the
\* frames beneath it are unchanged, and no final value is produced.
C2_ReturnToCaller ==
    ( /\ Evaluated("Return")
      /\ Len(Before.stack_frames) >= 2
      /\ Top(Before).stack # <<>>
      /\ Top(Before).return_address # None )
    => /\ pc = Top(Before).return_address[1]
       /\ ret = Ok(None)
       /\ result = Running
       /\ globals = Before.globals
       /\ stack_frames =
            [Front(Before.stack_frames) EXCEPT
               ![Len(Before.stack_frames) - 1].stack =
                   Append(@, Last(Top(Before).stack))]

C2_Witness ==
    /\ Evaluated("Return")
    /\ Len(Before.stack_frames) = 2
    /\ Top(Before).return_address = Some(1)
    /\ Top(Before).stack = <<Number(0), Number(1)>>
    /\ Before.stack_frames[1].stack = <<Number(0)>>
    /\ Before.stack_frames[1].locals # EmptyMap
    /\ pc = 1
    /\ Top(Current).stack = <<Number(0), Number(1)>>

\* C3: a fetch with pc equal to the length of the sequence ends the run with
\* nil: the empty sequence run from an empty state yields nil, and so does
\* every run without Return that ends with a value.
C3_EndOfProgramIsNil ==
    /\ (prev # <<>> /\ Before.pc = Len(instructions)) => result = Ok(Nil)
    /\ (entry.fn = "run_with" /\ instructions = <<>> /\ result # Running)
       => result = Ok(Nil)
    /\ ( /\ entry.fn = "run_with"
         /\ ~HasReturn(instructions)
         /\ result # Running
         /\ result[1] = "Ok" )
       => result = Ok(Nil) /\ pc = Len(instructions)

C3_Witness ==
    /\ entry.fn = "run_with"
    /\ instructions = <<<<"PushPrimitive", Number(1)>>, <<"Nop">>>>
    /\ Top(Current).stack = <<Number(1)>>
    /\ pc = 2
    /\ result = Ok(Nil)

\* C4: a fetch with pc greater than the length of the sequence ends the run
\* with InvalidProgramCounter and evaluates nothing; call_with on
\* FunctionPointer(a) with a past the end is such a run.
C4_InvalidProgramCounter ==
    /\ (prev # <<>> /\ Before.pc > Len(instructions))
       => /\ result = Err("InvalidProgramCounter")
          /\ Current = Before
    /\ ( /\ entry.fn = "call_with"
         /\ entry.value[1] = "FunctionPointer"
         /\ entry.value[2] > Len(instructions)
         /\ result # Running )
       => /\ result = Err("InvalidProgramCounter")
          /\ ret = Ok(None)
          /\ Current = State(entry.value[2], entry.globals,
                             <<StackFrame(entry.args, None, <<>>)>>)

C4_Witness ==
    /\ entry.fn = "call_with"
    /\ entry.value = FunctionPointer(Len(instructions) + 1)
    /\ Len(instructions) > 0
    /\ prev = <<Current>>
    /\ result = Err("InvalidProgramCounter")

\* The last iteration evaluated PushName with the String name on top of the
\* operand stack.
PushedName(name) ==
    /\ Evaluated("PushName")
    /\ Top(Before).stack # <<>>
    /\ Last(Top(Before).stack) = String(name)

\* The frames beneath the innermost one whose locals bind name.
OuterBinding(name) ==
    {i \in 1..Len(Before.stack_frames) - 1 : name \in DOMAIN Before.stack_frames[i].locals}

\* PushName has replaced the name on top of the stack by value and continued.
PushedValue(value) ==
    /\ ret = Ok(None)
    /\ result = Running
    /\ pc = Before.pc + 1
    /\ globals = Before.globals
    /\ stack_frames = [Before.stack_frames EXCEPT
                         ![Len(Before.stack_frames)].stack = Append(Front(@), value)]

ArgsN == instructions[Before.pc + 1][3]
ArgsGetSelf == instructions[Before.pc + 1][2]
ArgsBase == Len(Top(Before).stack) - 2 * ArgsN
Named(i) == Top(Before).stack[ArgsBase + 2 * i - 1]
Positional(i) == Top(Before).stack[ArgsBase + 2 * i]
Args == Top(Before).stack[ArgsBase][2]

\* The last iteration evaluated StoreFunctionArgs on a table and n pairs.
BoundArgs ==
    /\ Evaluated("StoreFunctionArgs")
    /\ ArgsBase >= 1
    /\ is_table(Top(Before).stack[ArgsBase])

\* key is bound to a value other than Nil in table t.
Present(t, key) == key \in DOMAIN t /\ ~is_nil(t[key])

\* Every pair is a String name with a Number or Nil positional key.
WellTypedParams ==
    \A i \in 1..ArgsN : is_string(Named(i)) /\ (is_number(Positional(i)) \/ is_nil(Positional(i)))

DistinctNames == \A i, j \in 1..ArgsN : i # j => Named(i) # Named(j)

DeclaredNames == {Named(i)[2] : i \in 1..ArgsN}

\* The locals of the current frame agree before and after on every name
\* outside changed.
LocalsUnchangedExcept(changed) ==
    /\ DOMAIN Top(Current).locals \ changed = DOMAIN Top(Before).locals \ changed
    /\ \A name \in DOMAIN Top(Before).locals \ changed :
         Top(Current).locals[name] = Top(Before).locals[name]

\* Every declared parameter is bound to args[named] when present, otherwise
\* to args[positional]; no other local is created or changed.
ParamsBound ==
    /\ \A i \in 1..ArgsN :
         /\ Named(i)[2] \in DOMAIN Top(Current).locals
         /\ Top(Current).locals[Named(i)[2]] =
              IF Present(Args, Named(i)) THEN Args[Named(i)] ELSE Args[Positional(i)]
    /\ LocalsUnchangedExcept(DeclaredNames \cup (IF ArgsGetSelf THEN {"self"} ELSE {}))

\* C7 as stated: a successful StoreFunctionArgs binds every declared
\* parameter to args[named] when that is present and not Nil, otherwise to
\* args[positional], and creates or changes no other local.
C7_NamedBeforePositional ==
    (BoundArgs /\ ret = Ok(None)) => ParamsBound

\* C7 amended: a successful StoreFunctionArgs whose declared names are
\* pairwise distinct binds every declared parameter to args[named] when that
\* is present and not Nil, otherwise to args[positional], and creates or
\* changes no local other than the declared names (and self when requested).
C7_DistinctNamedBeforePositional ==
    (BoundArgs /\ ret = Ok(None) /\ DistinctNames) => ParamsBound /\ pc = Before.pc + 1

C7_Witness ==
    /\ BoundArgs
    /\ ArgsGetSelf
    /\ ArgsN = 2
    /\ Named(1) = String("a") /\ Positional(1) = Number(0)
    /\ Named(2) = String("b") /\ Positional(2) = Nil
    /\ DOMAIN Args = {String("self"), String("b"), Number(0), Number(1)}
    /\ \A k \in DOMAIN Args : ~is_nil(Args[k])
    /\ ret = Ok(None)
    /\ Top(Current).locals = [name \in {"a", "b", "self"} |->
                                IF name = "a" THEN Args[Number(0)]
                                ELSE Args[String(name)]]

\* C8: StoreFunctionArgs fails with FunctionArgumentNotProvided whenever a
\* declared parameter has its named key absent or Nil in the arguments table
\* and its positional key Nil, absent from the table or bound to Nil.
C8_ArgumentNotProvided ==
    ( /\ BoundArgs
      /\ WellTypedParams
      /\ \E i \in 1..ArgsN : ~Present(Args, Named(i)) /\ ~Present(Args, Positional(i)) )
    => ret = Err("FunctionArgumentNotProvided")

\* C9: one entry of the arguments table satisfies at most one parameter.
\* Two parameters that can only resolve to the same positional slot make the
\* evaluation fail with FunctionArgumentNotProvided; a successful evaluation
\* has consumed one entry per parameter, and parameters of different names
\* are never bound to the value of the same entry.
C9_SlotUsedOnce ==
    /\ ( /\ BoundArgs
         /\ \A i \in 1..ArgsN : is_string(Named(i)) /\ is_number(Positional(i))
         /\ \E i, j \in 1..ArgsN :
              /\ i # j
              /\ Positional(i) = Positional(j)
              /\ ~Present(Args, Named(i))
              /\ ~Present(Args, Named(j)) )
       => ret = Err("FunctionArgumentNotProvided") /\ result = ret
    /\ (BoundArgs /\ ret = Ok(None))
       => /\ Cardinality(into_iter(Args)) >= ArgsN + (IF ArgsGetSelf THEN 1 ELSE 0)
          /\ \A i, j \in 1..ArgsN :
               Named(i) # Named(j)
               => Top(Current).locals[Named(i)[2]] # Top(Current).locals[Named(j)[2]]

C9_Witness ==
    /\ BoundArgs
    /\ ArgsN = 2
    /\ Named(1) = String("a") /\ Positional(1) = Number(0)
    /\ Named(2) = String("b") /\ Positional(2) = Number(0)
    /\ Args = Const({Number(0)}, ArgValue(Number(0)))
    /\ ret = Err("FunctionArgumentNotProvided")

\* self is bound to args["self"] when requested, and the evaluation fails
\* when args["self"] is absent or Nil: with FunctionArgumentNotProvided,
\* unless a declared parameter has failed before with InvalidVariable, which
\* takes a name that is no String or a positional key that is no Number.
SelfBound ==
    /\ (BoundArgs /\ ArgsGetSelf /\ ret = Ok(None))
       => /\ Present(Args, String("self"))
          /\ "self" \in DOMAIN Top(Current).locals
          /\ Top(Current).locals["self"] = Args[String("self")]
    /\ (BoundArgs /\ ArgsGetSelf /\ ~Present(Args, String("self")))
       => /\ ret[1] = "Err"
          /\ result = ret
          /\ ret # Err("FunctionArgumentNotProvided")
             => /\ ret = Err("InvalidVariable")
                /\ \E i \in 1..ArgsN : ~is_string(Named(i)) \/ ~is_number(Positional(i))
          /\ ( /\ DistinctNames
               /\ \A i \in 1..ArgsN :
                    /\ is_string(Named(i))
                    /\ is_number(Positional(i)) \/ Present(Args, Named(i)) )
             => ret = Err("FunctionArgumentNotProvided")

\* The local self is what it was before the evaluation.
SelfKept ==
    /\ "self" \in DOMAIN Top(Current).locals <=> "self" \in DOMAIN Top(Before).locals
    /\ "self" \in DOMAIN Top(Before).locals
       => Top(Current).locals["self"] = Top(Before).locals["self"]

C11_ErrorLeavesStateUnchanged ==
    (prev # <<>> /\ ret[1] = "Err") => Current = Before

\* C12: the first RuntimeError an evaluation returns is the result of the
\* whole execution, whatever the entry point: a step whose evaluation fails
\* makes that error the result, and every step starts from a run that has no
\* result yet, so nothing is evaluated after it.
C12_FirstErrorIsResult ==
    [][ /\ result = Running
        /\ ret'[1] = "Err" => result' = ret' ]_vars

C12_Witness ==
    /\ entry.fn = "call_with"
    /\ entry.value = FunctionPointer(1)
    /\ Len(instructions) = 3
    /\ instructions[2] = <<"Pop">>
    /\ instructions[3] = <<"Return">>
    /\ Evaluated("Pop")
    /\ ret = Err("EmptyStack")
    /\ result = Err("EmptyStack")

\* The instructions that are neither a jump nor Return.
SequentialOps ==
    {"Nop", "Copy", "Swap", "Pop", "StoreName", "StorePrimitive", "PushName",
     "PushPrimitive", "TableGet", "TableListBuild", "TableDictBuild", "TableMerge",
     "StoreFunctionArgs"}

\* C13: every successful evaluation of an instruction other than the jumps
\* and Return increases the program counter by exactly one and yields
\* 'continue', so the run goes on.
C13_SequentialAdvance ==
    \A op \in SequentialOps :
      (Evaluated(op) /\ ret[1] = "Ok")
      => /\ pc = Before.pc + 1
         /\ ret = Ok(None)
         /\ result = Running

C13_Witness ==
    /\ entry.fn = "run_with"
    /\ instructions = <<<<"PushPrimitive", Number(1)>>, <<"Nop">>, <<"Pop">>>>
    /\ Evaluated("Nop")
    /\ Before.pc = 1
    /\ pc = 2
    /\ ret = Ok(None)
    /\ result = Running

\* The operand of the instruction the last iteration evaluated.
Operand == instructions[Before.pc + 1][2]

\* C14: PopJumpIfTrue(n) and PopJumpIfFalse(n) pop the top operand, coerce it
\* with the truthiness rules and advance pc by n when the condition matches
\* the instruction and by 1 otherwise; on an empty operand stack they fail
\* with EmptyStack.
C14_PopJumpIf ==
    \A op \in {"PopJumpIfTrue", "PopJumpIfFalse"} :
      Evaluated(op) =>
        IF Top(Before).stack = <<>> THEN result = Err("EmptyStack")
        ELSE /\ result = Running
             /\ globals = Before.globals
             /\ stack_frames = [Before.stack_frames EXCEPT
                                  ![Len(Before.stack_frames)].stack = Front(@)]
             /\ pc = Before.pc + (IF bool(Last(Top(Before).stack)) = (op = "PopJumpIfTrue")
                                  THEN Operand ELSE 1)

\* C15: Jump(0) behaves as Nop: evaluating it succeeds, yields 'continue' and
\* leaves the state as Nop would leave it.
C15_JumpZeroIsNop ==
    (Evaluated("Jump") /\ Operand = 0)
    => /\ result = Running
       /\ ret = EvalNop(Before).ret
       /\ Current = EvalNop(Before).s

(***************************************************************************)
(* Vocabulary of the table instructions: the operand stack the last        *)
(* evaluation found, and the one it left with top replaced.                *)
(***************************************************************************)
Operands == Top(Before).stack

\* The state after an instruction that continued, having replaced the top
\* taken entries of the operand stack by value.
Replaced(taken, value) ==
    /\ ret = Ok(None)
    /\ result = Running
    /\ pc = Before.pc + 1
    /\ globals = Before.globals
    /\ stack_frames =
         [Before.stack_frames EXCEPT
            ![Len(Before.stack_frames)].stack =
                Append(SubSeq(Operands, 1, Len(Operands) - taken), value)]

\* C16: TableListBuild(n) on a stack whose top n values were pushed in the
\* order v0, .., v(n-1) removes them and pushes one table in which key i maps
\* to vi for every i in 0..n-1 and no other key is bound; the entries below
\* are unchanged.
C16_ListBuildKeepsPushOrder ==
    (Evaluated("TableListBuild") /\ Len(Operands) >= Operand)
    => Replaced(Operand,
                Table([k \in {Number(i) : i \in 0..Operand - 1} |->
                          Operands[Len(Operands) - Operand + 1 + k[2]]]))

C16_Witness ==
    /\ Evaluated("TableListBuild")
    /\ Operand = 2
    /\ Operands = <<String("a"), Number(1)>>
    /\ Top(Current).stack[1][2][Number(0)] = String("a")
    /\ Top(Current).stack[1][2][Number(1)] = Number(1)

\* The pairs TableDictBuild(n) takes, in the order pushed.
DictBase == Len(Operands) - 2 * Operand
DictKey(i) == Operands[DictBase + 2 * i - 1]
DictValue(i) == Operands[DictBase + 2 * i]

\* C17: TableDictBuild(n) pops n (key, value) pairs and pushes a table in
\* which every key maps to the value of the last-pushed pair carrying that
\* key; earlier pairs for that key have no effect.
C17_LastDeclaredPairWins ==
    ( /\ Evaluated("TableDictBuild")
      /\ DictBase >= 0
      /\ \A i \in 1..Operand : IsPrimitive(DictKey(i)) )
    => Replaced(2 * Operand,
                Table([k \in {DictKey(i) : i \in 1..Operand} |->
                          DictValue(Max({i \in 1..Operand : DictKey(i) = k}))]))

C17_Witness ==
    /\ Evaluated("TableDictBuild")
    /\ Operand = 2
    /\ Operands = <<String("a"), Number(1), String("a"), Number(2)>>
    /\ Top(Current).stack = <<Table(Const({String("a")}, Number(2)))>>

\* C18: TableMerge is right-biased: with a below b it replaces both by one
\* table m such that m[k] = b[k] for every key k with a non-Nil value in b,
\* m[k] = a[k] for every other key with a non-Nil value in a, and m binds no
\* other key to a non-Nil value; it fails with NotATable when either operand
\* is not a table.
C18_MergeRightBiased ==
    (Evaluated("TableMerge") /\ Len(Operands) >= 2)
    => LET a == Operands[Len(Operands) - 1]
           b == Operands[Len(Operands)]
       IN  IF is_table(a) /\ is_table(b)
           THEN /\ ret = Ok(None)
                /\ LET m == Last(Top(Current).stack)
                   IN  /\ Replaced(2, m)
                       /\ is_table(m)
                       /\ \A k \in into_iter(b[2]) : Present(m[2], k) /\ m[2][k] = b[2][k]
                       /\ \A k \in into_iter(a[2]) \ into_iter(b[2]) :
                            Present(m[2], k) /\ m[2][k] = a[2][k]
                       /\ into_iter(m[2]) = into_iter(a[2]) \cup into_iter(b[2])
           ELSE ret = Err("NotATable") /\ result = ret

C18_Witness ==
    /\ Evaluated("TableMerge")
    /\ Operands = <<Table([k \in {String("a"), String("b")} |-> Number(1)]),
                    Table(Const({String("b")}, Number(2)))>>
    /\ Top(Current).stack =
         <<Table([k \in {String("a"), String("b")} |->
                    IF k = String("a") THEN Number(1) ELSE Number(2)])>>

\* C19: TableGet with table t and key k on the stack (k on top) leaves on
\* top the value t[k] when k is bound in t and Nil when it is not; it fails
\* with InvalidTableKey when the key is not a Primitive, which is examined
\* first, and with InvalidVariable when the operand in the table position is
\* not a Table.
C19_TableGetValue ==
    (Evaluated("TableGet") /\ Len(Operands) >= 2)
    => LET t == Operands[Len(Operands) - 1]
           k == Operands[Len(Operands)]
       IN  IF ~IsPrimitive(k) THEN ret = Err("InvalidTableKey") /\ result = ret
           ELSE IF ~is_table(t) THEN ret = Err("InvalidVariable") /\ result = ret
           ELSE /\ ret = Ok(None)
                /\ result = Running
                /\ Last(Top(Current).stack) = IF k \in DOMAIN t[2] THEN t[2][k] ELSE Nil

C19_Witness ==
    /\ Evaluated("TableGet")
    /\ Operands = <<Table(Const({String("a")}, Number(1))), String("b")>>
    /\ ret = Ok(None)
    /\ Last(Top(Current).stack) = Nil

\* The value a successful TableGet has read: t[k], or Nil.
Got ==
    LET t == Operands[Len(Operands) - 1]
        k == Operands[Len(Operands)]
    IN  IF k \in DOMAIN t[2] THEN t[2][k] ELSE Nil

\* C20 as stated: a successful TableGet consumes both operands: the stack
\* after it is the stack before it with the top two entries (t, k) replaced
\* by the single entry v, so the depth decreases by one.
C20_TableGetConsumesBoth ==
    (Evaluated("TableGet") /\ ret = Ok(None)) => Replaced(2, Got)

\* C20 amended: a successful TableGet consumes only the key: the stack after
\* it is the stack before it with the top entry k replaced by v, so the depth
\* is unchanged and the table t stays on the stack directly beneath v.
C20_TableGetKeepsTable ==
    (Evaluated("TableGet") /\ ret = Ok(None)) => Replaced(1, Got)

C20_Witness ==
    /\ Evaluated("TableGet")
    /\ Operands = <<Table(Const({String("a")}, Number(1))), String("a")>>
    /\ Top(Current).stack = <<Table(Const({String("a")}, Number(1))), Number(1)>>
    /\ pc = 1

C22_CallWith ==
    entry.fn = "call_with" =>
      IF entry.value[1] = "FunctionPointer"
      THEN /\ prev = <<>>
              => /\ pc = entry.value[2]
                 /\ globals = entry.globals
                 /\ stack_frames = <<StackFrame(entry.args, None, <<>>)>>
                 /\ result = Running
           /\ (Evaluated("Return") /\ Operands # <<>>)
              => /\ ret = Ok(Some(Last(Operands)))
                 /\ result = Ok(Last(Operands))
      ELSE /\ prev = <<>>
           /\ result = Err("InvalidCallable")

C22_Witness ==
    /\ entry.fn = "call_with"
    /\ entry.value = FunctionPointer(1)
    /\ entry.args = Const({"a"}, Number(1))
    /\ instructions = <<<<"PushPrimitive", String("a")>>, <<"PushPrimitive", String("a")>>,
                        <<"Return">>>>
    /\ Evaluated("Return")
    /\ Operands = <<String("a")>>
    /\ result = Ok(String("a"))

\* The instruction at index i (from 0) jumps to a target beyond the end.
JumpsBeyondEnd(i) ==
    /\ instructions[i + 1][1] \in {"Jump", "PopJumpIfTrue", "PopJumpIfFalse"}
    /\ i + instructions[i + 1][2] > Len(instructions)

\* C23: in an execution started by run_with on a sequence with no jump to a
\* target beyond its end, the program counter never exceeds the length of
\* the sequence, so the execution never ends with InvalidProgramCounter.
C23_RunStaysInRange ==
    ( /\ entry.fn = "run_with"
      /\ \A i \in 0..Len(instructions) - 1 : ~JumpsBeyondEnd(i) )
    => /\ pc <= Len(instructions)
       /\ result # Err("InvalidProgramCounter")

C23_Witness ==
    /\ entry.fn = "run_with"
    /\ instructions = <<<<"Nop">>, <<"PushPrimitive", Number(1)>>, <<"Pop">>>>
    /\ prev # <<>>
    /\ Before.pc = 3
    /\ pc = 3
    /\ result = Ok(Nil)

(***************************************************************************)
(* Two executions of one instruction sequence, each with its own State.    *)
(* Under PairSpec every variable but instructions and entry is a pair, one *)
(* component per execution; prev counts the iterations each has made.      *)
(***************************************************************************)
\* Instruction::eval as one operator: the match on the instruction.
eval(instr, s) ==
    CASE instr[1] = "Nop" -> EvalNop(s)
      [] instr[1] = "Copy" -> EvalCopy(s)
      [] instr[1] = "Swap" -> EvalSwap(s)
      [] instr[1] = "Pop" -> EvalPop(s)
      [] instr[1] = "StoreName" -> EvalStoreName(s)
      [] instr[1] = "StorePrimitive" -> EvalStorePrimitive(s, instr[2])
      [] instr[1] = "PushName" -> EvalPushName(s)
      [] instr[1] = "PushPrimitive" -> EvalPushPrimitive(s, instr[2])
      [] instr[1] = "TableGet" -> EvalTableGet(s)
      [] instr[1] = "TableListBuild" -> EvalTableListBuild(s, instr[2])
      [] instr[1] = "TableDictBuild" -> EvalTableDictBuild(s, instr[2])
      [] instr[1] = "TableMerge" -> EvalTableMerge(s)
      [] instr[1] = "StoreFunctionArgs" -> EvalStoreFunctionArgs(s, instr[2], instr[3])
      [] instr[1] = "Return" -> EvalReturn(s)

\* An execution: its State, the outcome of its last eval and its result.
Execution(s, r, res) == [s |-> s, ret |-> r, result |-> res]

\* The match on what eval returned: an error or a returned value ends the
\* execution, Ok(None) continues it.
Outcome(out) ==
    Execution(out.s, out.ret,
              IF out.ret[1] = "Err" THEN out.ret
              ELSE IF out.ret[2] # None THEN Ok(out.ret[2][1])
              ELSE Running)

\* One iteration of the loop of run_with_state on execution x.
run_with_state(program, x) ==
    IF x.result # Running THEN x
    ELSE IF x.s.pc < Len(program)
    THEN IF program[x.s.pc + 1][1] \in TodoOps THEN [x EXCEPT !.result = Panic]
         ELSE Outcome(eval(program[x.s.pc + 1], x.s))
    ELSE IF x.s.pc = Len(program) THEN [x EXCEPT !.result = Ok(Nil)]
    ELSE [x EXCEPT !.result = Err("InvalidProgramCounter")]

\* The instructions of a sequence two executions share.
PairInstrs ==
    {<<"PushPrimitive", String("a")>>, <<"PushPrimitive", Number(1)>>, <<"PushName">>,
     <<"StoreName">>, <<"Return">>, <<"Call">>}

\* Program::run_with(globals), twice on one Program: the second execution
\* has globals of its own.
InitPair ==
    \E program \in SeqsUpTo(PairInstrs, MaxProgLen), g \in {EmptyMap, Const({"a"}, Number(0))} :
        /\ instructions = program
        /\ pc = <<0, 0>>
        /\ globals = <<g, Const({"a"}, Number(2))>>
        /\ stack_frames = <<<<StackFrame(EmptyMap, None, <<>>)>>,
                            <<StackFrame(EmptyMap, None, <<>>)>>>>
        /\ ret = <<Ok(None), Ok(None)>>
        /\ result = <<Running, Running>>
        /\ prev = <<0, 0>>
        /\ user_table = <<>>
        /\ entry = [fn |-> "run_with", program |-> program,
                    globals |-> <<g, Const({"a"}, Number(2))>>]

\* Execution i of the pair.
Thread(i) == Execution(State(pc[i], globals[i], stack_frames[i]), ret[i], result[i])

\* RunThread with a program counter that belongs to the Program, not to the
\* State: an iteration of one execution moves the other's as well.
RunThreadSharedPc(i) ==
    /\ result[i] = Running
    /\ \E x \in {run_with_state(instructions, Thread(i))} :
           /\ pc' = <<x.s.pc, x.s.pc>>
           /\ globals' = [globals EXCEPT ![i] = x.s.globals]
           /\ stack_frames' = [stack_frames EXCEPT ![i] = x.s.stack_frames]
           /\ ret' = [ret EXCEPT ![i] = x.ret]
           /\ result' = [result EXCEPT ![i] = x.result]
    /\ prev' = [prev EXCEPT ![i] = @ + 1]
    /\ UNCHANGED <<instructions, entry, user_table>>

\* Execution i makes one iteration of its loop: eval takes the Program by
\* shared reference and the State of i by exclusive reference.
RunThread(i) ==
    /\ result[i] = Running
    /\ \E x \in {run_with_state(instructions, Thread(i))} :
           /\ pc' = [pc EXCEPT ![i] = x.s.pc]
           /\ globals' = [globals EXCEPT ![i] = x.s.globals]
           /\ stack_frames' = [stack_frames EXCEPT ![i] = x.s.stack_frames]
           /\ ret' = [ret EXCEPT ![i] = x.ret]
           /\ result' = [result EXCEPT ![i] = x.result]
    /\ prev' = [prev EXCEPT ![i] = @ + 1]
    /\ UNCHANGED <<instructions, entry, user_table>>

PairNext == \E i \in 1..2 : RunThread(i)

PairSpec == InitPair /\ [][PairNext]_vars

\* Execution i run alone from its entry point for n iterations.
RECURSIVE Alone(_, _)
Alone(i, n) ==
    IF n = 0
    THEN Execution(State(0, entry.globals[i], <<StackFrame(EmptyMap, None, <<>>)>>),
                   Ok(None), Running)
    ELSE CHOOSE y \in {run_with_state(entry.program, x) : x \in {Alone(i, n - 1)}} : TRUE

iter(m) == {k \in DOMAIN m : ~is_nil(m[k])}

\* The derived PartialEq of Value and PartialEq for Table: every binding
\* that self.iter() yields is compared with other.get(key), as
\* other_value == Some(value).
RECURSIVE value_eq(_, _)
RECURSIVE table_eq(_, _)
value_eq(a, b) ==
    /\ a[1] = b[1]
    /\ CASE a[1] = "Table" -> table_eq(a[2], b[2])
         [] a[1] = "Number" -> number_eq(a, b)
         [] OTHER -> a = b

\* table_eq going over every binding of self, the Nil ones too.
table_eq_counts_nil(self, other) ==
    \A key \in DOMAIN self :
      /\ get(other, key) # None
      /\ value_eq(get(other, key)[1], self[key])

table_eq(self, other) ==
    \A key \in iter(self) :
      /\ get(other, key) # None
      /\ value_eq(get(other, key)[1], self[key])

\* iter_list_from stopping only at a missing key, not at one bound to Nil.
RECURSIVE iter_list_from_yields_nil(_, _)
iter_list_from_yields_nil(m, i) ==
    LET v == get(m, Number(i))
    IN  IF v = None THEN <<>>
        ELSE <<v[1]>> \o iter_list_from_yields_nil(m, i + 1)

\* Table::iter_list from index i on: map_while over (i..) of self.get(i).
RECURSIVE iter_list_from(_, _)
iter_list_from(m, i) ==
    LET v == get(m, Number(i))
    IN  IF v = None THEN <<>>
        ELSE IF is_nil(v[1]) THEN <<>>
        ELSE <<v[1]>> \o iter_list_from(m, i + 1)

iter_list(m) == iter_list_from(m, 0)

\* The tables whose keys are among keys and whose values among values.
TablesOver(keys, values) ==
    UNION {[D -> values] : D \in SUBSET keys}

\* Dictionaries over two keys, with Nil bindings.
DictTables == TablesOver({String("a"), String("b")}, {Nil, Number(1), Number(2)})

\* Lists with gaps, Nil entries and a key that is no index.
ListTables ==
    TablesOver({Number(i) : i \in 0..MaxList - 1} \cup {String("a")}, {Nil, Number(1), Number(2)})

\* The floats: NaNs of two bit patterns, both zeros, both infinities, the
\* extreme finite values and some others.
Floats ==
    {NaN(1), NaN(2), NegZero, Number(0), Number(1), Number(-1), Infinity(1), Infinity(-1),
     f64_MAX, f64_MIN}

\* Values of every variant.
BoolValues ==
    {Nil, Bool(TRUE), Bool(FALSE), String(""), String("a"), FunctionPointer(0),
     Table(EmptyMap), Table(Const({String("a")}, Nil)), Table(Const({Number(0)}, Nil)),
     Table(Const({String("a")}, Number(0))),
     Table([k \in {Number(0), Number(1)} |-> IF k = Number(0) THEN Nil ELSE Bool(FALSE)])}
    \cup Floats

\* The calls made: the function and its arguments.
Calls ==
    {[fn |-> "set", args |-> <<t, k, v>>] :
        t \in DictTables, k \in {String("a"), String("b")}, v \in {Nil, Number(1)}}
    \cup {[fn |-> "eq", args |-> <<t1, t2>>] : t1 \in DictTables, t2 \in DictTables}
    \cup {[fn |-> "eq3", args |-> <<t1, t2, t3>>] :
              t1 \in DictTables, t2 \in DictTables, t3 \in DictTables}
    \cup {[fn |-> "iter_list", args |-> <<t>>] : t \in ListTables}
    \cup {[fn |-> "bool", args |-> <<v>>] : v \in BoolValues}
    \cup {[fn |-> "cmp", args |-> <<a, b>>] : a \in Floats, b \in Floats}
    \cup {[fn |-> "hash", args |-> <<a, b>>] : a \in Floats, b \in Floats}

InitLib ==
    /\ entry \in Calls
    /\ result = Running
    /\ instructions = <<>>
    /\ pc = 0
    /\ globals = EmptyMap
    /\ stack_frames = <<>>
    /\ ret = Ok(None)
    /\ prev = <<>>
    /\ user_table = <<>>

Called(fn) == entry.fn = fn /\ result = Running

Returns(value) ==
    /\ result' = Ok(value)
    /\ UNCHANGED <<instructions, pc, globals, stack_frames, ret, prev, entry,
                   user_table>>

\* t.set(k, v), and then what t.get(k), t.iter() and t.get_mut(k) give.
TableSet ==
    /\ Called("set")
    /\ LET t == set(entry.args[1], entry.args[2], entry.args[3])
       IN  Returns([table |-> t,
                    get |-> get(t, entry.args[2]),
                    iter |-> iter(t),
                    get_mut |-> get_mut(t, entry.args[2])])

\* t1 == t2
TableEq == Called("eq") /\ Returns(table_eq(entry.args[1], entry.args[2]))

\* t1 == t2, t2 == t1, t2 == t3 and t1 == t3.
TableEqChain ==
    /\ Called("eq3")
    /\ LET t1 == entry.args[1]
           t2 == entry.args[2]
           t3 == entry.args[3]
       IN  Returns([ab |-> table_eq(t1, t2), ba |-> table_eq(t2, t1),
                    bc |-> table_eq(t2, t3), ac |-> table_eq(t1, t3)])

\* t.iter_list().collect()
TableIterList == Called("iter_list") /\ Returns(iter_list(entry.args[1]))

\* bool(v)
BoolOf == Called("bool") /\ Returns(bool(entry.args[1]))

\* a == b, a.partial_cmp(b) with the operators < and > it defines, and
\* a.cmp(b), which orders Primitive keys.
Compare ==
    /\ Called("cmp")
    /\ LET a == entry.args[1]
           b == entry.args[2]
       IN  Returns([eq |-> number_eq(a, b),
                    partial_cmp |-> partial_cmp(a, b),
                    lt |-> partial_cmp(a, b) = Some("Less"),
                    gt |-> partial_cmp(a, b) = Some("Greater"),
                    cmp |-> cmp(a, b)])

\* The lookups of key in m that a HashMap can make when the hashes of two
\* equal keys differ: the entry is found only if the two hashes fall
\* together in the table, which the random state of the map decides.
Lookups(m, key) ==
    {get(m, key)} \cup {Some(m[k]) : k \in {j \in DOMAIN m : primitive_eq(j, key)}}

\* a == b, what a and b write to the Hasher, and t.get(b) after t.set(a, 1).
HashOf ==
    /\ Called("hash")
    /\ LET a == entry.args[1]
           b == entry.args[2]
       IN  \E found \in Lookups(set(EmptyMap, a, Number(1)), b) :
             Returns([eq |-> number_eq(a, b),
                      hash_a |-> number_hash(a),
                      hash_b |-> number_hash(b),
                      get |-> found])

LibNext ==
    \/ TableSet
    \/ TableEq
    \/ TableEqChain
    \/ TableIterList
    \/ BoolOf
    \/ Compare
    \/ HashOf

LibSpec == InitLib /\ [][LibNext]_vars

\* The call of fn has returned; Returned is what it returned.
After(fn) == entry.fn = fn /\ result # Running
Returned == result[2]

\* Table m without any binding for key.
Without(m, key) == [k \in DOMAIN m \ {key} |-> m[k]]

\* What C25 says of everything but get: iter does not yield k, t equals the
\* same table without k, and get_mut(k) gives the Nil slot of k.
NilIsAbsent ==
    LET k == entry.args[2]
        t == Returned.table
    IN  /\ k \notin Returned.iter
        /\ table_eq(t, Without(entry.args[1], k))
        /\ table_eq(Without(entry.args[1], k), t)
        /\ Returned.get_mut = t
        /\ t[k] = Nil

\* C25 as stated: after t.set(k, Nil) the key k behaves as absent: get(k)
\* reports no value, iter does not yield k, t equals the same table without
\* k, and get_mut(k) returns the Nil slot of k.
C25_NilBehavesAbsent ==
    (After("set") /\ entry.args[3] = Nil) => Returned.get = None /\ NilIsAbsent

\* C25 amended: after t.set(k, Nil) the key k behaves as absent for iter and
\* for equality, and get_mut(k) returns the Nil slot of k; get(k) reports the
\* Nil binding, Some(Nil), and not the None of a key that was never bound.
C25_NilAbsentButGet ==
    (After("set") /\ entry.args[3] = Nil)
    => /\ Returned.get = Some(Nil)
       /\ get(Without(entry.args[1], entry.args[2]), entry.args[2]) = None
       /\ NilIsAbsent

C25_Witness ==
    /\ After("set")
    /\ entry.args = <<[k \in {String("a"), String("b")} |-> Number(1)], String("a"), Nil>>
    /\ Returned.get = Some(Nil)
    /\ Returned.iter = {String("b")}

\* C26: t1 == t2 holds exactly when every key bound to a value other than Nil
\* in t1 is bound to an equal value in t2; a key bound to Nil counts as
\* missing on either side.
C26_TableEquality ==
    After("eq")
    => LET t1 == entry.args[1]
           t2 == entry.args[2]
       IN  Returned = (\A k \in DOMAIN t1 :
                         t1[k] # Nil => (k \in DOMAIN t2 /\ t2[k] = t1[k]))

C26_Witness ==
    /\ After("eq")
    /\ entry.args = <<[k \in {String("a"), String("b")} |-> Nil], EmptyMap>>
    /\ Returned = TRUE

\* The first index at which list iteration over t stops.
Gap(t) ==
    CHOOSE i \in 0..MaxList :
      /\ Number(i) \notin DOMAIN t \/ t[Number(i)] = Nil
      /\ \A j \in 0..i - 1 : Number(j) \in DOMAIN t /\ t[Number(j)] # Nil

\* C27: iter_list yields the values at the keys 0, 1, 2, .. in order and stops
\* at the first key that is missing or bound to Nil; values at integer keys
\* after such a gap and at keys that are no integer are not yielded, and the
\* iteration ends.
C27_IterListStopsAtGap ==
    After("iter_list")
    => LET t == entry.args[1]
       IN  Returned = [i \in 1..Gap(t) |-> t[Number(i - 1)]]

C27_Witness ==
    /\ After("iter_list")
    /\ DOMAIN entry.args[1] = {Number(0), Number(2), String("a")}
    /\ entry.args[1][Number(0)] = Number(1)
    /\ entry.args[1][Number(2)] = Number(2)
    /\ Returned = <<Number(1)>>

\* The reference truthiness of a value.
Truthy(v) ==
    CASE v[1] = "Nil" -> FALSE
      [] v[1] = "Bool" -> v[2]
      [] v[1] = "Number" -> v \notin {Number(0), NegZero}
      [] v[1] = "String" -> v[2] # ""
      [] v[1] = "Table" -> \E k \in DOMAIN v[2] : v[2][k] # Nil
      [] v[1] = "FunctionPointer" -> TRUE

\* C28: bool(v) is the reference truthiness of v: Nil is false, a Bool is
\* itself, a Number is false exactly for +0.0 and -0.0 and true otherwise,
\* NaN and the infinities included, a String is false exactly when empty, a
\* Table exactly when it has no entry with a value other than Nil, and a
\* FunctionPointer is true.
C28_Truthiness ==
    After("bool") => Returned = Truthy(entry.args[1])

C28_Witness ==
    /\ After("bool")
    /\ entry.args[1] = NaN(1)
    /\ Returned = TRUE

\* C29: Number comparison is a total order in which NaN equals NaN and NaN is
\* less than every other Number: exactly one of a < b, a == b, a > b holds,
\* and it is the answer of the ordering used for Primitive keys.
C29_TotalOrder ==
    After("cmp")
    => LET a == entry.args[1]
           b == entry.args[2]
       IN  /\ Cardinality({x \in {"lt", "eq", "gt"} : Returned[x]}) = 1
           /\ Returned.lt <=> Returned.cmp = "Less"
           /\ Returned.eq <=> Returned.cmp = "Equal"
           /\ Returned.gt <=> Returned.cmp = "Greater"
           /\ (is_nan(a) /\ is_nan(b)) => Returned.eq
           /\ (is_nan(a) /\ ~is_nan(b)) => Returned.lt

\* C30: a == b implies hash(a) = hash(b), for NaNs of different bit patterns
\* and for +0.0 and -0.0 too, so a value stored under the key a is found by
\* get with any key b equal to a.
C30_EqualNumbersHashEqual ==
    (After("hash") /\ Returned.eq)
    => /\ Returned.hash_a = Returned.hash_b
       /\ Returned.get = Some(Number(1))

(***************************************************************************)
(* TableMerge and the Nil bindings of its top operand.                     *)
(***************************************************************************)
\* The keys the top table of a TableMerge binds to Nil and the table below
\* it binds to a value other than Nil.
NilOverValue ==
    LET a == Operands[Len(Operands) - 1]
        b == Operands[Len(Operands)]
    IN  {k \in DOMAIN b[2] : is_nil(b[2][k]) /\ Present(a[2], k)}

\* A TableMerge of two tables has been evaluated.
Merged ==
    /\ Evaluated("TableMerge")
    /\ Len(Operands) >= 2
    /\ is_table(Operands[Len(Operands) - 1])
    /\ is_table(Operands[Len(Operands)])

\* C31 as stated: TableMerge applies every binding of the top table b, the
\* Nil ones included: a key that b binds to Nil and the lower table a binds
\* to a value other than Nil is absent from the merged table.
C31_NilBindingDeletes ==
    Merged => \A k \in NilOverValue : ~Present(Last(Top(Current).stack)[2], k)

\* C31, amended: TableMerge applies every binding of the top table b whose
\* value is not Nil; a key that b binds to Nil and the lower table a binds to
\* a value other than Nil keeps the value a gives it in the merged table.
C31_NilBindingKeepsLower ==
    Merged
    => LET a == Operands[Len(Operands) - 1]
           m == Last(Top(Current).stack)
       IN  /\ is_table(m)
           /\ \A k \in NilOverValue : Present(m[2], k) /\ m[2][k] = a[2][k]

C31_Witness ==
    /\ Merged
    /\ Operands = <<Table(Const({String("a")}, Number(1))), Table(Const({String("a")}, Nil))>>
    /\ NilOverValue = {String("a")}
    /\ Top(Current).stack = <<Table(Const({String("a")}, Number(1)))>>

\* C32: table equality is symmetric and transitive: t1 == t2 implies
\* t2 == t1, t1 == t2 and t2 == t3 imply t1 == t3, and a table is never equal
\* to a table with an additional binding to a value other than Nil.
C32_EqualityIsEquivalence ==
    After("eq3")
    => LET t1 == entry.args[1]
           t2 == entry.args[2]
       IN  /\ Returned.ab => Returned.ba
           /\ (Returned.ab /\ Returned.bc) => Returned.ac
           /\ (\E k \in iter(t2) : k \notin iter(t1)) => ~Returned.ab

(***************************************************************************)
(* What holds of every execution of the driver.                            *)
(***************************************************************************)
\* C33: no instruction modifies the globals: after any sequence of
\* evaluations, successful or failing, the globals are the mapping supplied
\* at the entry point.
C33_GlobalsUnchanged == globals = entry.globals

\* A store to a name that only the globals bind has been evaluated.
C33_Witness ==
    /\ Evaluated("StoreName")
    /\ ret = Ok(None)
    /\ Operands = <<String("a"), Number(1)>>
    /\ "a" \notin DOMAIN Top(Before).locals
    /\ entry.globals = Const({"a"}, Number(0))
    /\ Top(Current).locals["a"] = Number(1)
    /\ globals = Const({"a"}, Number(0))

\* The execution was started through run, run_with, call or call_with.
FromEntryPoint == entry.fn \in {"run_with", "call_with"}

\* C34: in every execution started through run, run_with, call or call_with
\* the frame stack is non-empty whenever an instruction is evaluated, both
\* the one evaluated last and the one evaluated next, and no evaluation
\* returns NoStackFrames.
C34_FramesWhenEvaluated ==
    FromEntryPoint
    => /\ (prev # <<>> /\ Before.pc < Len(instructions)) => Before.stack_frames # <<>>
       /\ (result = Running /\ pc < Len(instructions)) => stack_frames # <<>>
       /\ ret # Err("NoStackFrames")
       /\ result # Err("NoStackFrames")

\* Return has popped the only frame, and the execution has ended with it.
C34_Witness ==
    /\ FromEntryPoint
    /\ Evaluated("Return")
    /\ Len(Before.stack_frames) = 1
    /\ stack_frames = <<>>
    /\ pc < Len(instructions)
    /\ result = Ok(Number(1))

\* The sequence contains no Call.
NoCall == \A i \in 1..Len(instructions) : instructions[i][1] # "Call"

\* C35: an execution started by run or run_with on a sequence without Call
\* ends with a value or an error after at most as many evaluations as the
\* sequence has instructions: it never ends otherwise, every evaluation that
\* does not end it increases the program counter, and the program counter
\* of a continuing execution does not pass the end of the sequence.
C35_RunTerminates ==
    (entry.fn = "run_with" /\ NoCall)
    => /\ result = Running \/ result[1] \in {"Ok", "Err"}
       /\ (prev # <<>> /\ result = Running) => pc > Before.pc
       /\ result = Running => pc <= Len(instructions)

\* C36: the partial comparison of Numbers agrees with the total one for
\* every pair: partial_cmp(a, b) is never unordered and is always the answer
\* of cmp(a, b), also when exactly one of a and b is NaN.
C36_PartialAgreesWithTotal ==
    After("cmp") => Returned.partial_cmp = Some(Returned.cmp)

(***************************************************************************)
(* The Table of taulunen (src/taulunen/src/table.rs) with one index, and   *)
(* its IndexStorage (src/taulunen/src/index_storage.rs).  Under TableSpec   *)
(* user_table is the Table, entry the last call made on it and result is   *)
(* Running until a call has panicked.  An ItemID is its number, and an      *)
(* index storage is the set of its (value, item id) entries.               *)
(***************************************************************************)
\* Value::int and Value::data_type.
int(i) == <<"Int", i>>
data_type(value) == value[1]

\* The items stored: users, whose age need not be known.
User(name, age) == [name |-> name, age |-> age]
Users == {User(name, age) : name \in {"Max", "Jalai"}, age \in {None, Some(29), Some(30)}}

\* Index::data_type and Index::extract of the index on the age.
index_data_type(index) == "Int"
extract(index, item) == IF item.age = None THEN None ELSE Some(int(item.age[1]))

\* new_index_storage(unique): an empty UniqueIndexStorage or an empty
\* NonUniqueIndexStorage.
new_index_storage(unique) == [unique |-> unique, entries |-> {}]

\* IndexStorage::add: a UniqueIndexStorage keeps the entry it has for value.
add(storage, item_id, value) ==
    IF storage.unique /\ \E e \in storage.entries : e[1] = value THEN storage
    ELSE [storage EXCEPT !.entries = @ \cup {<<value, item_id>>}]

\* The assertion that failed.
AssertFailed == <<"Panic", "assert_eq">>

\* IndexStorage::remove: a UniqueIndexStorage removes the entry of value and
\* asserts that it is the one of item_id; ok is whether the assertion held.
index_storage_remove(storage, item_id, value) ==
    IF storage.unique
    THEN LET old == {e \in storage.entries : e[1] = value}
         IN  [storage |-> [storage EXCEPT !.entries = @ \ old],
              ok |-> \A e \in old : e[2] = item_id]
    ELSE [storage |-> [storage EXCEPT !.entries = @ \ {<<value, item_id>>}], ok |-> TRUE]

\* IndexStorage::update: remove under the old value, add under the new one.
index_storage_update(storage, item_id, old_value, new_value) ==
    LET removed == index_storage_remove(storage, item_id, old_value)
    IN  IF ~removed.ok THEN removed
        ELSE [storage |-> add(removed.storage, item_id, new_value), ok |-> TRUE]

\* The item ids of a set in ascending order, the order of the BTreeMap.
RECURSIVE Ascending(_)
Ascending(ids) ==
    IF ids = {} THEN <<>>
    ELSE LET least == CHOOSE i \in ids : \A j \in ids : i <= j
         IN  <<least>> \o Ascending(ids \ {least})

\* IndexStorage::get: the item ids entered under value.
index_storage_get(storage, value) ==
    Ascending({e[2] : e \in {x \in storage.entries : x[1] = value}})

\* What the step of one index in a loop over the indices leaves: its
\* storage, and the panic if it panicked.
Kept(index_storage) == [storage |-> index_storage, panic |-> Running]
Mismatch(index_storage) == [storage |-> index_storage, panic |-> Panic]
Asserted(r) == [storage |-> r.storage, panic |-> IF r.ok THEN Running ELSE AssertFailed]

\* What a loop over the indices leaves: the table with the storages the
\* steps left, and the panic of a step if one panicked.
Indexed(t, steps) ==
    [table |-> [t EXCEPT !.indices = [i \in DOMAIN steps |-> steps[i].storage]],
     panic |-> IF \A i \in DOMAIN steps : steps[i].panic = Running THEN Running
               ELSE CHOOSE p \in {steps[i].panic : i \in DOMAIN steps} : p # Running]

\* Table::index_item: every index enters the item under the value it
\* extracts, if it extracts one.
index_item(t, item_id, item) ==
    Indexed(t, [index \in DOMAIN t.indices |->
        LET index_value == extract(index, item)
            index_storage == t.indices[index]
        IN  IF index_value = None THEN Kept(index_storage)
            ELSE IF data_type(index_value[1]) # index_data_type(index)
            THEN Mismatch(index_storage)
            ELSE Kept(add(index_storage, item_id, index_value[1]))])

\* Table::unindex_item: every index removes the item from under the value it
\* extracts, if it extracts one.
unindex_item(t, item_id, item) ==
    Indexed(t, [index \in DOMAIN t.indices |->
        LET index_value == extract(index, item)
            index_storage == t.indices[index]
        IN  IF index_value = None THEN Kept(index_storage)
            ELSE IF data_type(index_value[1]) # index_data_type(index)
            THEN Mismatch(index_storage)
            ELSE Asserted(index_storage_remove(index_storage, item_id, index_value[1]))])

\* Table::reindex_item: an index moves the item when it extracts a value
\* from the old item and another from the new one, and does nothing else.
reindex_item(t, item_id, old_item, new_item) ==
    Indexed(t, [index \in DOMAIN t.indices |->
        LET old_index_value == extract(index, old_item)
            new_index_value == extract(index, new_item)
            index_storage == t.indices[index]
        IN  IF old_index_value = None \/ new_index_value = None THEN Kept(index_storage)
            ELSE IF old_index_value = new_index_value THEN Kept(index_storage)
            ELSE IF data_type(old_index_value[1]) # data_type(new_index_value[1])
            THEN Mismatch(index_storage)
            ELSE IF data_type(old_index_value[1]) # index_data_type(index)
            THEN Mismatch(index_storage)
            ELSE Asserted(index_storage_update(index_storage, item_id, old_index_value[1],
                                               new_index_value[1]))])

\* Table::where_eq: the items stored under the item ids the index has for
\* value.
where_eq(t, index, value) ==
    LET item_ids == IF index \in DOMAIN t.indices
                    THEN index_storage_get(t.indices[index], value) ELSE <<>>
        found == SelectSeq(item_ids, LAMBDA item_id : item_id \in DOMAIN t.items)
    IN  [n \in 1..Len(found) |-> t.items[found[n]]]

\* HashMap::remove on the items.
items_remove(items, item_id) == [k \in DOMAIN items \ {item_id} |-> items[k]]

\* Table::empty().add_index(index), for a unique and for a non-unique index.
InitTable ==
    \E unique \in BOOLEAN :
        /\ user_table = [item_id |-> 0, items |-> EmptyMap,
                         indices |-> [index \in {"Age"} |-> new_index_storage(unique)]]
        /\ entry = [fn |-> "add_index", args |-> <<unique>>]
        /\ result = Running
        /\ instructions = <<>>
        /\ pc = 0
        /\ globals = EmptyMap
        /\ stack_frames = <<>>
        /\ ret = Ok(None)
        /\ prev = <<>>

\* A call of fn has left table, or has panicked.
Does(fn, args, done) ==
    /\ user_table' = done.table
    /\ result' = done.panic
    /\ entry' = [fn |-> fn, args |-> args]
    /\ UNCHANGED <<instructions, pc, globals, stack_frames, ret, prev>>

\* A call that found no item to work on.
Nothing == [table |-> user_table, panic |-> Running]

\* The table placing item under item_id, after the indices were updated.
Placed(done, item_id, item) ==
    IF done.panic # Running THEN done
    ELSE [done EXCEPT !.table.items = insert(@, item_id, item)]

\* user_table.insert(item)
TableInsert ==
    /\ result = Running
    /\ user_table.item_id < MaxItems
    /\ \E item \in Users :
         Does("insert", <<item>>,
              Placed(index_item([user_table EXCEPT !.item_id = @ + 1], user_table.item_id, item),
                     user_table.item_id, item))

\* user_table.update(item_id, update), where update leaves new_item.
TableUpdate ==
    /\ result = Running
    /\ \E item_id \in 0..MaxItems - 1, new_item \in Users :
         Does("update", <<item_id, new_item>>,
              IF item_id \in DOMAIN user_table.items
              THEN reindex_item([user_table EXCEPT !.items[item_id] = new_item], item_id,
                                user_table.items[item_id], new_item)
              ELSE Nothing)

\* user_table.remove(item_id)
TableRemove ==
    /\ result = Running
    /\ \E item_id \in 0..MaxItems - 1 :
         Does("remove", <<item_id>>,
              IF item_id \in DOMAIN user_table.items
              THEN unindex_item([user_table EXCEPT !.items = items_remove(@, item_id)], item_id,
                                user_table.items[item_id])
              ELSE Nothing)

\* user_table.remove_if(item_id, remove_if), where remove_if answers answer.
TableRemoveIf ==
    /\ result = Running
    /\ \E item_id \in 0..MaxItems - 1, answer \in BOOLEAN :
         Does("remove_if", <<item_id, answer>>,
              IF item_id \in DOMAIN user_table.items /\ answer
              THEN unindex_item([user_table EXCEPT !.items = items_remove(@, item_id)], item_id,
                                user_table.items[item_id])
              ELSE Nothing)

TableNext ==
    \/ TableInsert
    \/ TableUpdate
    \/ TableRemove
    \/ TableRemoveIf

TableSpec == InitTable /\ [][TableNext]_vars

\* The items now stored whose age the index extracts as value, in the order
\* of their item ids.
Stored(value) ==
    LET item_ids == Ascending({item_id \in DOMAIN user_table.items :
                                 extract("Age", user_table.items[item_id]) = Some(value)})
    IN  [n \in 1..Len(item_ids) |-> user_table.items[item_ids[n]]]

\* C37: in a table with a non-unique index, after any sequence of insert,
\* update, remove and remove_if, where_eq(index, v) returns exactly the items
\* now stored from which the index extracts Some(v): no removed or stale
\* item and no stored item missing, also after an update that changed the
\* extracted value between None and Some.
C37_IndexConsistent ==
    ~user_table.indices["Age"].unique
    => \A value \in {int(29), int(30)} : where_eq(user_table, "Age", value) = Stored(value)

\* C38: in a table with a unique index the assertion of
\* UniqueIndexStorage::remove, that the item id entered under the value is
\* the one being removed, holds in every sequence of insert, update, remove
\* and remove_if, also after two items with the same indexed value were
\* inserted.
C38_UniqueRemoveAssertion ==
    user_table.indices["Age"].unique => result # AssertFailed

====
